---- MODULE Spec2Model ----
(***************************************************************************)
(* Account store, account service and authentication service of the       *)
(* Athena LMS backend.                                                     *)
(*                                                                         *)
(*   accounts table + accounts_email_idx   apps/api/migrations/001_init_db *)
(*   profiles table                        apps/api/migrations/001_init_db *)
(*   AccountRepository, ProfileRepository  apps/api/repository             *)
(*   AccountService, AuthService           apps/api/service                *)
(*   hash_password / verify_password       shared/security/password        *)
(*                                                                         *)
(* Every repository method issues one SQL statement on one pooled          *)
(* connection, so a call is one atomic step on the table; SpecPool splits  *)
(* it into acquire, statement and release to follow the connection pool.   *)
(* Time is the value of NOW() / datetime.now() in whole seconds.           *)
(*                                                                         *)
(*   Spec          the account store with the services over it, no clock   *)
(*   SpecService   the AccountService methods                              *)
(*   SpecTimed     the store with the clock, for the timestamp columns     *)
(*   SpecPool      concurrent repository calls over the connection pool    *)
(*   SpecPoolFair  the same with a pool of any size and fair scheduling    *)
(*   SpecAuth      the token machinery of AuthService, with the clock      *)
(*   SpecSession   login and refresh over stored accounts                  *)
(*   SpecPassword  hash_password and verify_password                       *)
(*   SpecProfile   the profiles table and ProfileRepository                *)
(***************************************************************************)
EXTENDS Integers, Sequences, FiniteSets, TLC

\* ------------------------------------------------------------------ bounds
MaxAccounts == 2
\* the last value of the clock
MaxTime == 4
\* access_token_expires and refresh_token_expires, in clock ticks
AccessTTL == 1
RefreshTTL == 2
\* the rows of the table in the specification of sessions
MaxSessionAccounts == 1
\* the last value of the clock in the specification of the timestamp columns
MaxStoreTime == 2
\* max_size of the connection pool
PoolSize == 2

\* ------------------------------------------------------------- input sets
Emails == {"a@x.com", "b@x.com"}
Passwords == {"secret1", "secret2"}
\* the values bcrypt.gensalt() can draw
Salts == {1, 2}
Ids == 1..(MaxAccounts + 1)
\* the ids in the specification of the timestamp columns: one row for each
\* email, and an id no row has
TimedIds == 1..(Cardinality(Emails) + 1)

\* SQL NULL in a timestamp column
NULL == 0

VARIABLES
    accounts,   \* the accounts table: row i has id i
    now,        \* the clock read by NOW() and datetime.now(timezone.utc)
    config,     \* the Config the AuthService was constructed with
    tokens,     \* the token of an earlier response that a caller kept
    deleted,    \* ids for which delete_account has returned normally
    res,        \* the outcome of the last call: operation, arguments, result
    calls,      \* the repository call each caller has in progress, if any
    pool,       \* the number of connections checked out of the pool
    lib,        \* the bcrypt release the build installed
    profiles    \* the profiles table, in insertion order

vars == <<accounts, now, config, tokens, deleted, res, calls, pool, lib, profiles>>

\* ------------------------------------------------------- password hashing
\* Python None in a field that otherwise holds a bcrypt hash string
NoHash == [salt |-> 0, digest |-> <<0, "">>]

\* a string that is not a bcrypt hash
BadHash == [salt |-> -1, digest |-> <<-1, "">>]

\* two passwords of 73 characters that share their first 72, and those 72
Prefix72 ==
    "aaaaaaaaaaaaaaaaaaaaaaaaaaaaaaaaaaaaaaaaaaaaaaaaaaaaaaaaaaaaaaaaaaaaaaaa"
LongPasswordY ==
    "aaaaaaaaaaaaaaaaaaaaaaaaaaaaaaaaaaaaaaaaaaaaaaaaaaaaaaaaaaaaaaaaaaaaaaaay"
LongPasswordZ ==
    "aaaaaaaaaaaaaaaaaaaaaaaaaaaaaaaaaaaaaaaaaaaaaaaaaaaaaaaaaaaaaaaaaaaaaaaaz"

\* the passwords RegisterAccountDto admits (6 to 128 characters)
AllPasswords == Passwords \cup {LongPasswordY, LongPasswordZ}

\* a password of more than 72 bytes
TooLong(plain_password) == plain_password \in {LongPasswordY, LongPasswordZ}

\* the first 72 bytes of plain_password.encode("utf-8")
First72(plain_password) ==
    IF TooLong(plain_password) THEN Prefix72 ELSE plain_password

\* the bcrypt releases a build can have: before 5.0 a password is cut to its
\* first 72 bytes, from 5.0 on a longer password is refused with ValueError
Libs == {"bcrypt4", "bcrypt5"}

\* bcrypt.hashpw: the hash string carries the salt and the digest of the
\* salt and the first 72 bytes of the password
hashpw(plain_password, salt) ==
    [salt |-> salt, digest |-> <<salt, First72(plain_password)>>]

\* bcrypt.hashpw as the installed release runs it
bcrypt_hashpw(password, salt, release) ==
    IF release = "bcrypt5" /\ TooLong(password)
    THEN [err |-> "ValueError", hash |-> NoHash]
    ELSE [err |-> "none", hash |-> hashpw(password, salt)]

\* bcrypt.checkpw as the installed release runs it: it raises on a string
\* that is not a bcrypt hash (ValueError) and on None (the .encode of
\* verify_password raises AttributeError before it)
bcrypt_checkpw(password, hashed_password, release) ==
    IF hashed_password = NoHash THEN [err |-> "AttributeError", ok |-> FALSE]
    ELSE IF hashed_password.salt \notin Salts
    THEN [err |-> "ValueError", ok |-> FALSE]
    ELSE IF release = "bcrypt5" /\ TooLong(password)
    THEN [err |-> "ValueError", ok |-> FALSE]
    ELSE [err |-> "none",
          ok |-> hashpw(password, hashed_password.salt) = hashed_password]

\* hash_password with the salt bcrypt.gensalt() drew: nothing is caught, an
\* error of the library propagates
hash_password_lib(plain_password, salt, release) ==
    bcrypt_hashpw(plain_password, salt, release)

\* a handler that lets the error through
VerifyExcept_raise(err) == [err |-> err, ok |-> FALSE]

\* except Exception: return False
VerifyExcept(err) == [err |-> "none", ok |-> FALSE]

\* verify_password
verify_password_lib(plain_password, hashed_password, release) ==
    LET r == bcrypt_checkpw(plain_password, hashed_password, release)
    IN  IF r.err # "none" THEN VerifyExcept(r.err) ELSE r

\* hash_password and verify_password on passwords within 72 bytes, where
\* the releases agree
hash_password(plain_password, salt) ==
    hash_password_lib(plain_password, salt, "bcrypt4").hash

verify_password(plain_password, hashed_password) ==
    verify_password_lib(plain_password, hashed_password, "bcrypt4").ok

\* ------------------------------------------------------------ Python None
None == [is_none |-> TRUE]
IsNone(x) == "is_none" \in DOMAIN x

\* ---------------------------------------------------------- accounts table
\* a row as INSERT INTO accounts (email) creates it: every other column
\* takes its default
NewRow(id, email, t) ==
    [id |-> id, email |-> email, password_hash |-> NoHash,
     status |-> "created", confirmed_at |-> NULL,
     created_at |-> t, updated_at |-> t, deleted_at |-> NULL]

\* a DTO that keeps every column of the row
ReadAccountDto_row(row) == row

\* ReadAccountDto(**row): the dataclass has no password_hash field, the
\* extra key of the row is dropped
ReadAccountDto(row) ==
    [id |-> row.id, email |-> row.email, status |-> row.status,
     confirmed_at |-> row.confirmed_at, created_at |-> row.created_at,
     updated_at |-> row.updated_at, deleted_at |-> row.deleted_at]

\* a filter that forgets the soft-delete mark
IsActive_all(row) == TRUE

\* WHERE deleted_at IS NULL
IsActive(row) == row.deleted_at = NULL

\* WHERE id = %s alone
MatchesId_any(row, account_id) == row.id = account_id

\* WHERE id = %s AND deleted_at IS NULL
MatchesId(row, account_id) == row.id = account_id /\ IsActive(row)

\* WHERE email = %s AND deleted_at IS NULL
MatchesEmail(row, email) == row.email = email /\ IsActive(row)

\* a unique index over every row, soft-deleted ones included
UniqueViolation_full(accts, self, email) ==
    \E i \in 1..Len(accts) : i # self /\ accts[i].email = email

\* no unique index at all
UniqueViolation_none(accts, self, email) == FALSE

\* accounts_email_idx: unique (email) where deleted_at is null.  TRUE when
\* giving row `self` (0 for a new row) the email would break the index.
UniqueViolation(accts, self, email) ==
    \E i \in 1..Len(accts) :
        i # self /\ accts[i].email = email /\ accts[i].deleted_at = NULL

\* ------------------------------------------------------ AccountRepository
Ok(accts, out) == [err |-> "none", out |-> out, accounts |-> accts]
Raise(accts, kind) == [err |-> kind, out |-> None, accounts |-> accts]

\* a handler that lets the driver's error through
ExceptError_leak(driver_error) == driver_error

\* a handler with the single except clause of the other methods
ExceptCreate_generic(driver_error) == "AccountRepositoryError"

\* the except clauses of create_account: UniqueViolation first, then
\* psycopg.errors.Error, the base class of every error of the driver
ExceptCreate(driver_error) ==
    IF driver_error = "UniqueViolation" THEN "AccountAlreadyExistsError"
    ELSE "AccountRepositoryError"

\* a handler that reports a unique violation as it does on create
ExceptError_conflict(driver_error) ==
    IF driver_error = "UniqueViolation" THEN "AccountAlreadyExistsError"
    ELSE "AccountRepositoryError"

\* the except clause of the other methods: psycopg.errors.Error
ExceptError(driver_error) == "AccountRepositoryError"

\* AccountRepository.create_account.  fault: the driver raises an
\* OperationalError while the connection is acquired or the statement runs.
Repo_create_account(accts, dto, t, fault) ==
    IF fault THEN Raise(accts, ExceptCreate("OperationalError"))
    ELSE IF UniqueViolation(accts, 0, dto.email)
    THEN Raise(accts, ExceptCreate("UniqueViolation"))
    ELSE LET row == NewRow(Len(accts) + 1, dto.email, t)
         IN  Ok(Append(accts, row), ReadAccountDto(row))

\* AccountRepository.get_account_by_id
Repo_get_account_by_id(accts, account_id, fault) ==
    IF fault THEN Raise(accts, ExceptError("OperationalError"))
    ELSE IF \E i \in 1..Len(accts) : MatchesId(accts[i], account_id)
    THEN Ok(accts, ReadAccountDto(accts[account_id]))
    ELSE Raise(accts, "AccountNotFoundError")

\* AccountRepository.get_account_by_email
Repo_get_account_by_email(accts, email, fault) ==
    IF fault THEN Raise(accts, ExceptError("OperationalError"))
    ELSE IF \E i \in 1..Len(accts) : MatchesEmail(accts[i], email)
    THEN LET i == CHOOSE j \in 1..Len(accts) : MatchesEmail(accts[j], email)
         IN  Ok(accts, ReadAccountDto(accts[i]))
    ELSE Raise(accts, "AccountNotFoundError")

\* a SET clause without updated_at = NOW()
ApplyUpdate_stale(row, dto, t) ==
    [row EXCEPT !.email = IF dto.email = "" THEN @ ELSE dto.email,
                !.status = IF dto.status = "" THEN @ ELSE dto.status]

\* the SET clause update_account builds: email and status when supplied,
\* updated_at always; dto.password_hash is never read
ApplyUpdate(row, dto, t) ==
    [row EXCEPT !.email = IF dto.email = "" THEN @ ELSE dto.email,
                !.status = IF dto.status = "" THEN @ ELSE dto.status,
                !.updated_at = t]

\* AccountRepository.update_account
Repo_update_account(accts, account_id, dto, t, fault) ==
    IF fault THEN Raise(accts, ExceptError("OperationalError"))
    ELSE IF ~ \E i \in 1..Len(accts) : MatchesId(accts[i], account_id)
    THEN Raise(accts, "AccountNotFoundError")
    ELSE LET row == ApplyUpdate(accts[account_id], dto, t)
         IN  IF UniqueViolation(accts, account_id, row.email)
             THEN Raise(accts, ExceptError("UniqueViolation"))
             ELSE Ok([accts EXCEPT ![account_id] = row], ReadAccountDto(row))

\* a deletion that also rewrites the status column
ApplyDelete_status(row, t) ==
    [row EXCEPT !.deleted_at = t, !.status = "deleted"]

\* the SET clause of delete_account
ApplyDelete(row, t) == [row EXCEPT !.deleted_at = t]

\* AccountRepository.delete_account
Repo_delete_account(accts, account_id, t, fault) ==
    IF fault THEN Raise(accts, ExceptError("OperationalError"))
    ELSE IF ~ \E i \in 1..Len(accts) : MatchesId(accts[i], account_id)
    THEN Raise(accts, "AccountNotFoundError")
    ELSE Ok([accts EXCEPT ![account_id] = ApplyDelete(@, t)], None)

\* the rows SELECT * ... WHERE deleted_at IS NULL matches
ActiveIds(accts) == {i \in 1..Len(accts) : IsActive(accts[i])}

\* the orders in which the statement may return them (it has no ORDER BY)
Orders(S) ==
    {o \in [1..Cardinality(S) -> S] :
        \A i, j \in 1..Cardinality(S) : i # j => o[i] # o[j]}

\* OFFSET %s LIMIT %s
Page(seq, limit, offset) ==
    SubSeq(seq, offset + 1,
           IF offset + limit < Len(seq) THEN offset + limit ELSE Len(seq))

\* AccountRepository.get_all_accounts: the statement has no ORDER BY, the
\* rows come in the order the storage engine picks
Repo_get_all_accounts(accts, limit, offset, order, fault) ==
    IF fault THEN Raise(accts, ExceptError("OperationalError"))
    ELSE LET rows == [i \in 1..Len(order) |-> ReadAccountDto(accts[order[i]])]
         IN  Ok(accts, Page(rows, limit, offset))

\* ---------------------------------------------------------- AccountService
\* a service that does not compare the two passwords
Mismatch_unchecked(password, confirm_password) == FALSE

\* dto.password != dto.confirm_password
Mismatch(password, confirm_password) == password # confirm_password

\* a handler for AccountNotFoundError alone
Catches_narrow(operation) == {"AccountNotFoundError"}

\* the repository error kinds the except clauses of each method name
Catches(operation) ==
    CASE operation = "create_account"
           -> {"AccountAlreadyExistsError", "AccountRepositoryError"}
      [] operation = "get_all_accounts" -> {"AccountRepositoryError"}
      [] OTHER -> {"AccountNotFoundError", "AccountRepositoryError"}

\* one message for every failure
ServiceMessage_same(operation, kind) == "Account not found"

\* the message of the AccountServiceError each except clause raises
ServiceMessage(operation, kind) ==
    IF kind = "AccountAlreadyExistsError"
    THEN "Account with this email already exists"
    ELSE IF kind = "AccountNotFoundError" THEN "Account not found"
    ELSE CASE operation = "create_account"
                -> "Database error while creating account"
           [] operation = "get_account_by_id"
                -> "Database error while fetching account"
           [] operation = "get_all_accounts"
                -> "Database error while fetching accounts"
           [] operation = "update_account"
                -> "Database error while updating account"
           [] operation = "delete_account"
                -> "Database error while deleting account"

\* try: return await self.repo.<operation>(...) with its except clauses: an
\* error kind the method has no handler for propagates as it is.  kind is
\* what the repository call raised.
Translate(operation, r) ==
    IF r.err = "none"
    THEN [err |-> "none", msg |-> "", kind |-> "none", out |-> r.out,
          accounts |-> r.accounts]
    ELSE IF r.err \in Catches(operation)
    THEN [err |-> "AccountServiceError",
          msg |-> ServiceMessage(operation, r.err), kind |-> r.err,
          out |-> None, accounts |-> r.accounts]
    ELSE [err |-> r.err, msg |-> "", kind |-> r.err, out |-> None,
          accounts |-> r.accounts]

\* AccountService.create_account (registration)
Service_create_account(accts, dto, salt, t, fault) ==
    IF Mismatch(dto.password, dto.confirm_password)
    THEN [err |-> "PasswordMismatchError", msg |-> "Passwords do not match",
          kind |-> "none", out |-> None, accounts |-> accts]
    ELSE LET password_hash == hash_password(dto.password, salt)
             repo_dto == [email |-> dto.email, password_hash |-> password_hash]
         IN  Translate("create_account",
                       Repo_create_account(accts, repo_dto, t, fault))

\* AccountService.get_account_by_id
Service_get_account_by_id(accts, account_id, fault) ==
    Translate("get_account_by_id",
              Repo_get_account_by_id(accts, account_id, fault))

\* AccountService.get_all_accounts
Service_get_all_accounts(accts, limit, offset, order, fault) ==
    Translate("get_all_accounts",
              Repo_get_all_accounts(accts, limit, offset, order, fault))

\* AccountService.update_account
Service_update_account(accts, account_id, dto, t, fault) ==
    Translate("update_account",
              Repo_update_account(accts, account_id, dto, t, fault))

\* AccountService.delete_account
Service_delete_account(accts, account_id, t, fault) ==
    Translate("delete_account",
              Repo_delete_account(accts, account_id, t, fault))

\* ------------------------------------------------------------------ tokens
NoPayload == [sub |-> 0, email |-> "", status |-> "", type |-> "", exp |-> 0]

\* the HS256 signature of a payload under a key
HMAC(payload, key) == [key |-> key, msg |-> payload]

\* jwt.encode: header.payload.signature
jwt_encode(claims, key) ==
    [segments |-> 3, payload |-> claims, sig |-> HMAC(claims, key)]

\* a string that is not a JWT
Malformed == [segments |-> 1, payload |-> NoPayload, sig |-> HMAC(NoPayload, "")]
NoToken == [segments |-> 0, payload |-> NoPayload, sig |-> HMAC(NoPayload, "")]

\* a decoder that does not verify the signature
SignatureOk_unverified(token, key) == TRUE

\* the signature check of jwt.decode
SignatureOk(token, key) == token.sig = HMAC(token.payload, key)

\* a decoder that does not look at exp
Expired_never(exp, t) == FALSE

\* the exp check of jwt.decode: the token is refused once exp < now
Expired(exp, t) == exp < t

\* jwt.decode: parse, verify the signature, then the exp claim
jwt_decode(token, key, t) ==
    IF token.segments # 3 THEN [err |-> "JWTError", payload |-> NoPayload]
    ELSE IF ~ SignatureOk(token, key)
    THEN [err |-> "JWTError", payload |-> NoPayload]
    ELSE IF Expired(token.payload.exp, t)
    THEN [err |-> "JWTError", payload |-> NoPayload]
    ELSE [err |-> "none", payload |-> token.payload]

\* AuthService._create_token
create_token(data, expires_delta, secret, t) ==
    LET expire == t + expires_delta
        to_encode == [sub |-> data.sub, email |-> data.email,
                      status |-> data.status, type |-> data.type,
                      exp |-> expire]
    IN  jwt_encode(to_encode, secret)

\* AuthService._decode_token
decode_token(token, secret, t) ==
    LET d == jwt_decode(token, secret, t)
    IN  IF d.err = "JWTError"
        THEN [err |-> "TokenError", payload |-> NoPayload]
        ELSE [err |-> "none", payload |-> d.payload]

NoTokens ==
    [access_token |-> NoToken, refresh_token |-> NoToken,
     token_type |-> "", expires_in |-> 0]

\* the access payload login and refresh_tokens build from an account
AccessPayload(account) ==
    [sub |-> account.id, email |-> account.email,
     status |-> account.status, type |-> "access"]

\* a copy of the access payload whose type is left as it was
RefreshPayload_same(payload) == payload

\* the refresh payload: a copy of the access payload with type "refresh"
RefreshPayload(payload) == [payload EXCEPT !.type = "refresh"]

\* the token pair login and refresh_tokens issue, and the response dict
IssuePair(account, cfg, t) ==
    LET payload == AccessPayload(account)
        access_token == create_token(payload, cfg.access_token_expires,
                                     cfg.access_token_secret, t)
        refresh_payload == RefreshPayload(payload)
        refresh_token == create_token(refresh_payload,
                                      cfg.refresh_token_expires,
                                      cfg.refresh_token_secret, t)
    IN  [access_token |-> access_token, refresh_token |-> refresh_token,
         token_type |-> "bearer", expires_in |-> cfg.access_token_expires]

\* ------------------------------------------------------------- AuthService
\* getattr(account, "password_hash", None)
getattr_password_hash(account) ==
    IF "password_hash" \in DOMAIN account THEN account.password_hash
    ELSE NoHash

\* the lookup error passed on as it is
LookupFailure_leak(kind) == kind

\* the error login raises when the lookup raises
LookupFailure(kind) == "InvalidCredentialsError"

\* AuthService.login, given the outcome of account_repo.get_account_by_email
login(lookup, password, cfg, t) ==
    IF lookup.err # "none"
    THEN [err |-> LookupFailure(lookup.err), tok |-> NoTokens]
    ELSE LET account == lookup.out
         IN  IF IsNone(account) \/ getattr_password_hash(account) = NoHash
             THEN [err |-> "InvalidCredentialsError", tok |-> NoTokens]
             ELSE IF ~ verify_password(password, account.password_hash)
             THEN [err |-> "InvalidCredentialsError", tok |-> NoTokens]
             ELSE [err |-> "none", tok |-> IssuePair(account, cfg, t)]

\* a refresh that takes a token of any type
TypeAccepted_any(type) == TRUE

\* a check that takes access tokens in place of refresh tokens
TypeAccepted_access(type) == type = "access"

\* decoded.get("type") != "refresh" is refused
TypeAccepted(type) == type = "refresh"

\* an account object that takes the default status whatever the claim says
DecodedAccount_active(payload) ==
    [id |-> payload.sub, email |-> payload.email, status |-> "active"]

\* the account object refresh_tokens builds from the decoded claims alone
DecodedAccount(payload) ==
    [id |-> payload.sub, email |-> payload.email, status |-> payload.status]

\* AuthService.refresh_tokens
refresh_tokens(refresh_token, cfg, t) ==
    LET decoded == decode_token(refresh_token, cfg.refresh_token_secret, t)
    IN  IF decoded.err # "none"
        THEN [err |-> "TokenError", tok |-> NoTokens]
        ELSE IF ~ TypeAccepted(decoded.payload.type)
        THEN [err |-> "TokenError", tok |-> NoTokens]
        ELSE LET account == DecodedAccount(decoded.payload)
             IN  [err |-> "none", tok |-> IssuePair(account, cfg, t)]

\* ------------------------------------------------------------------- state
\* UpdateAccountDto: "" and NoHash stand for a field left at None
NoUpdate == [email |-> "", status |-> "", password_hash |-> NoHash]
UpdateDtos ==
    [email : Emails \cup {""}, status : {"", "blocked"},
     password_hash : {NoHash}]
    \cup {[NoUpdate EXCEPT !.password_hash = hashpw("secret1", 1)]}

BaseRes ==
    [op |-> "init", err |-> "none", msg |-> "", fault |-> FALSE,
     id |-> 0, email |-> "", password |-> "", confirm_password |-> "",
     kind |-> "none", dto |-> NoUpdate,
     out |-> None, list |-> <<>>, tok |-> NoTokens,
     hashes |-> <<>>, hashed |-> NoHash, ok |-> FALSE,
     token |-> NoToken, secret |-> "", records |-> <<>>]

\* Config as AuthService.__init__ receives it
Configs ==
    [access_token_secret : {"access_secret"},
     refresh_token_secret : {"access_secret", "refresh_secret"},
     access_token_expires : {AccessTTL},
     refresh_token_expires : {RefreshTTL},
     database_max_pool_size : {PoolSize}]

\* the configuration of the service tests: two different secrets
TestConfig ==
    [access_token_secret |-> "access_secret",
     refresh_token_secret |-> "refresh_secret",
     access_token_expires |-> AccessTTL,
     refresh_token_expires |-> RefreshTTL,
     database_max_pool_size |-> PoolSize]

\* the coroutines that call the repository
Callers == {"c1", "c2"}

\* a caller with no repository call in progress
NoCall ==
    [pc |-> "idle", op |-> "", id |-> 0, email |-> "", err |-> "none",
     fault |-> FALSE]

Init ==
    /\ accounts = <<>>
    /\ now = 1
    /\ config = TestConfig
    /\ tokens = {}
    /\ deleted = {}
    /\ res = BaseRes
    /\ calls = [c \in Callers |-> NoCall]
    /\ pool = 0
    /\ lib = "bcrypt4"
    /\ profiles = <<>>

InitAuth ==
    /\ accounts = <<>>
    /\ now = 1
    /\ config \in Configs
    /\ tokens = {}
    /\ deleted = {}
    /\ res = BaseRes
    /\ calls = [c \in Callers |-> NoCall]
    /\ pool = 0
    /\ lib = "bcrypt4"
    /\ profiles = <<>>

\* time passes between calls
Tick ==
    /\ now < MaxTime
    /\ now' = now + 1
    /\ res' = [res EXCEPT !.op = "tick"]
    /\ UNCHANGED <<accounts, config, tokens, deleted, calls, pool, lib, profiles>>

\* ---------------------------------------------- AccountRepository calls
CreateAccount(email, fault) ==
    /\ Len(accounts) < MaxAccounts
    /\ LET r == Repo_create_account(accounts,
                    [email |-> email, password_hash |-> hashpw("secret1", 1)],
                    now, fault)
       IN  /\ accounts' = r.accounts
           /\ res' = [BaseRes EXCEPT !.op = "create_account", !.err = r.err,
                          !.fault = fault, !.email = email, !.out = r.out]
    /\ UNCHANGED <<now, config, tokens, deleted, calls, pool, lib, profiles>>

GetAccountById(account_id, fault) ==
    /\ LET r == Repo_get_account_by_id(accounts, account_id, fault)
       IN  res' = [BaseRes EXCEPT !.op = "get_account_by_id", !.err = r.err,
                       !.fault = fault, !.id = account_id, !.out = r.out]
    /\ UNCHANGED <<accounts, now, config, tokens, deleted, calls, pool, lib, profiles>>

GetAccountByEmail(email, fault) ==
    /\ LET r == Repo_get_account_by_email(accounts, email, fault)
       IN  res' = [BaseRes EXCEPT !.op = "get_account_by_email",
                       !.err = r.err, !.fault = fault, !.email = email,
                       !.out = r.out]
    /\ UNCHANGED <<accounts, now, config, tokens, deleted, calls, pool, lib, profiles>>

GetAllAccounts(limit, offset, fault) ==
    /\ \E order \in Orders(ActiveIds(accounts)) :
         LET r == Repo_get_all_accounts(accounts, limit, offset, order, fault)
         IN  res' = [BaseRes EXCEPT !.op = "get_all_accounts", !.err = r.err,
                         !.fault = fault,
                         !.list = IF r.err = "none" THEN r.out ELSE <<>>]
    /\ UNCHANGED <<accounts, now, config, tokens, deleted, calls, pool, lib, profiles>>

UpdateAccount(account_id, dto, fault) ==
    /\ LET r == Repo_update_account(accounts, account_id, dto, now, fault)
       IN  /\ accounts' = r.accounts
           /\ res' = [BaseRes EXCEPT !.op = "update_account", !.err = r.err,
                          !.fault = fault, !.id = account_id, !.dto = dto,
                          !.out = r.out]
    /\ UNCHANGED <<now, config, tokens, deleted, calls, pool, lib, profiles>>

DeleteAccount(account_id, fault) ==
    /\ LET r == Repo_delete_account(accounts, account_id, now, fault)
       IN  /\ accounts' = r.accounts
           /\ deleted' = IF r.err = "none" THEN deleted \cup {account_id}
                         ELSE deleted
           /\ res' = [BaseRes EXCEPT !.op = "delete_account", !.err = r.err,
                          !.fault = fault, !.id = account_id]
    /\ UNCHANGED <<now, config, tokens, calls, pool, lib, profiles>>

\* ------------------------------- AccountRepository calls, step by step
\* the DTO of the updates that run concurrently
BlockDto == [NoUpdate EXCEPT !.status = "blocked"]

\* the ids the concurrent calls name: one row for each email
PoolIds == 1..Cardinality(Emails)

\* the calls a caller can start: method and arguments
PoolCalls ==
    {[NoCall EXCEPT !.op = "create_account", !.email = e] : e \in Emails}
    \cup {[NoCall EXCEPT !.op = o, !.id = i] :
             o \in {"get_account_by_id", "update_account", "delete_account"},
             i \in PoolIds}

\* the statement of a call, run on the table
RunStatement(accts, call, t, fault) ==
    CASE call.op = "create_account"
           -> Repo_create_account(accts,
                  [email |-> call.email, password_hash |-> hashpw("secret1", 1)],
                  t, fault)
      [] call.op = "get_account_by_id"
           -> Repo_get_account_by_id(accts, call.id, fault)
      [] call.op = "update_account"
           -> Repo_update_account(accts, call.id, BlockDto, t, fault)
      [] call.op = "delete_account"
           -> Repo_delete_account(accts, call.id, t, fault)

\* a block that gives the connection back only when it ends normally
Released_on_success(err) == err = "none"

\* async with self.pool.connection() as conn: the connection goes back to
\* the pool when the block is left, by return or by exception
Released(err) == TRUE

\* a pool that hands out connections without limit
PoolHasFree_unbounded(checked_out, max_size) == TRUE

\* AsyncConnectionPool(max_size=cfg.database_max_pool_size): a connection
\* is handed out while fewer than max_size are checked out
PoolHasFree(checked_out, max_size) == checked_out < max_size

\* a repository coroutine is called and reaches self.pool.connection()
Start(c, call) ==
    /\ calls[c].pc = "idle"
    /\ call.op = "create_account" => Len(accounts) < Cardinality(Emails)
    /\ calls' = [calls EXCEPT ![c] = [call EXCEPT !.pc = "wait"]]
    /\ UNCHANGED <<accounts, now, config, tokens, deleted, res, pool, lib, profiles>>

\* async with self.pool.connection(): the caller enters the block with a
\* connection, once the pool has one to give (max_size of create_pool)
Acquire(c) ==
    /\ calls[c].pc = "wait"
    /\ PoolHasFree(pool, config.database_max_pool_size)
    /\ calls' = [calls EXCEPT ![c].pc = "conn"]
    /\ pool' = pool + 1
    /\ UNCHANGED <<accounts, now, config, tokens, deleted, res, lib, profiles>>

\* self.pool.connection() raises (no connection within the timeout, server
\* unreachable): the except clause of the method turns the error into the
\* repository's, and no connection was handed out
AcquireFails(c) ==
    /\ calls[c].pc = "wait"
    /\ calls' = [calls EXCEPT ![c] = NoCall]
    /\ res' = [BaseRes EXCEPT !.op = "acquire_failed",
                   !.err = RunStatement(accounts, calls[c], now, TRUE).err,
                   !.fault = TRUE]
    /\ UNCHANGED <<accounts, now, config, tokens, deleted, pool, lib, profiles>>

\* cur.execute / cur.fetchone inside the block: the statement runs, or the
\* driver raises
Execute(c, fault) ==
    /\ calls[c].pc = "conn"
    /\ LET r == RunStatement(accounts, calls[c], now, fault)
       IN  /\ accounts' = r.accounts
           /\ deleted' = IF calls[c].op = "delete_account" /\ r.err = "none"
                         THEN deleted \cup {calls[c].id} ELSE deleted
           /\ calls' = [calls EXCEPT ![c].pc = "exit", ![c].err = r.err,
                                     ![c].fault = fault]
    /\ UNCHANGED <<now, config, tokens, res, pool, lib, profiles>>

\* the block is left and the method returns or raises
Release(c) ==
    /\ calls[c].pc = "exit"
    /\ pool' = IF Released(calls[c].err) THEN pool - 1 ELSE pool
    /\ calls' = [calls EXCEPT ![c] = NoCall]
    /\ res' = [BaseRes EXCEPT !.op = "repository_call",
                   !.err = calls[c].err, !.fault = calls[c].fault]
    /\ UNCHANGED <<accounts, now, config, tokens, deleted, lib, profiles>>

\* ------------------------------------------------------ password calls
\* the state in which hash_password and verify_password are called: any
\* release of bcrypt
InitPassword ==
    /\ accounts = <<>>
    /\ now = 1
    /\ config = TestConfig
    /\ tokens = {}
    /\ deleted = {}
    /\ res = BaseRes
    /\ calls = [c \in Callers |-> NoCall]
    /\ pool = 0
    /\ lib \in Libs
    /\ profiles = <<>>

\* the last two of a sequence
LastTwo(seq) == IF Len(seq) > 2 THEN Tail(seq) ELSE seq

\* hash_password(password): the caller keeps the last two hashes it was
\* given, and gensalt draws a salt that none of the hashes still kept carries
HashPassword(password, salt) ==
    /\ \A i \in 1..Len(res.hashes) :
          (Len(res.hashes) < 2 \/ i > 1) => res.hashes[i].hash.salt # salt
    /\ LET r == hash_password_lib(password, salt, lib)
       IN  res' = [BaseRes EXCEPT !.op = "hash_password", !.err = r.err,
                       !.password = password,
                       !.hashes =
                           IF r.err = "none"
                           THEN LastTwo(Append(res.hashes,
                                    [password |-> password, hash |-> r.hash]))
                           ELSE res.hashes]
    /\ UNCHANGED <<accounts, now, config, tokens, deleted, calls, pool, lib, profiles>>

\* verify_password(password, hashed)
VerifyPassword(password, hashed) ==
    /\ LET r == verify_password_lib(password, hashed, lib)
       IN  res' = [BaseRes EXCEPT !.op = "verify_password", !.err = r.err,
                       !.password = password, !.hashed = hashed,
                       !.ok = r.ok, !.hashes = res.hashes]
    /\ UNCHANGED <<accounts, now, config, tokens, deleted, calls, pool, lib, profiles>>

\* ------------------------------------------------- AccountService calls
Register(email, password, confirm_password, salt, fault) ==
    /\ Len(accounts) < MaxAccounts
    /\ LET dto == [email |-> email, password |-> password,
                   confirm_password |-> confirm_password]
           r == Service_create_account(accounts, dto, salt, now, fault)
       IN  /\ accounts' = r.accounts
           /\ res' = [BaseRes EXCEPT !.op = "register", !.err = r.err,
                          !.msg = r.msg, !.kind = r.kind, !.fault = fault,
                          !.email = email, !.password = password,
                          !.confirm_password = confirm_password,
                          !.out = r.out]
    /\ UNCHANGED <<now, config, tokens, deleted, calls, pool, lib, profiles>>

ServiceGetAccountById(account_id, fault) ==
    /\ LET r == Service_get_account_by_id(accounts, account_id, fault)
       IN  res' = [BaseRes EXCEPT !.op = "service_get_account_by_id",
                       !.err = r.err, !.msg = r.msg, !.kind = r.kind,
                       !.fault = fault, !.id = account_id, !.out = r.out]
    /\ UNCHANGED <<accounts, now, config, tokens, deleted, calls, pool, lib, profiles>>

ServiceGetAllAccounts(limit, offset, fault) ==
    /\ \E order \in Orders(ActiveIds(accounts)) :
         LET r == Service_get_all_accounts(accounts, limit, offset, order,
                                           fault)
         IN  res' = [BaseRes EXCEPT !.op = "service_get_all_accounts",
                         !.err = r.err, !.msg = r.msg, !.kind = r.kind,
                         !.fault = fault,
                         !.list = IF r.err = "none" THEN r.out ELSE <<>>]
    /\ UNCHANGED <<accounts, now, config, tokens, deleted, calls, pool, lib, profiles>>

ServiceUpdateAccount(account_id, dto, fault) ==
    /\ LET r == Service_update_account(accounts, account_id, dto, now, fault)
       IN  /\ accounts' = r.accounts
           /\ res' = [BaseRes EXCEPT !.op = "service_update_account",
                          !.err = r.err, !.msg = r.msg, !.kind = r.kind,
                          !.fault = fault, !.id = account_id, !.dto = dto,
                          !.out = r.out]
    /\ UNCHANGED <<now, config, tokens, deleted, calls, pool, lib, profiles>>

ServiceDeleteAccount(account_id, fault) ==
    /\ LET r == Service_delete_account(accounts, account_id, now, fault)
       IN  /\ accounts' = r.accounts
           /\ deleted' = IF r.err = "none" THEN deleted \cup {account_id}
                         ELSE deleted
           /\ res' = [BaseRes EXCEPT !.op = "service_delete_account",
                          !.err = r.err, !.msg = r.msg, !.kind = r.kind,
                          !.fault = fault, !.id = account_id]
    /\ UNCHANGED <<now, config, tokens, calls, pool, lib, profiles>>

\* ----------------------------------------------------- AuthService calls
\* login with the AccountRepository over the accounts table
Login(email, password, fault) ==
    /\ LET lookup == Repo_get_account_by_email(accounts, email, fault)
           r == login(lookup, password, config, now)
       IN  res' = [BaseRes EXCEPT !.op = "login", !.err = r.err,
                       !.fault = fault, !.email = email,
                       !.password = password, !.out = lookup.out,
                       !.tok = r.tok]
    /\ UNCHANGED <<accounts, now, config, tokens, deleted, calls, pool, lib, profiles>>

\* the account objects a stand-in repository hands to login: a
\* ReadAccountDto, with or without a password_hash attribute set on it
DoubleDtos ==
    { [id |-> 1, email |-> "a@x.com", status |-> "active",
       confirmed_at |-> 1, created_at |-> 1, updated_at |-> 1,
       deleted_at |-> NULL],
      [id |-> 2, email |-> "b@x.com", status |-> "blocked",
       confirmed_at |-> 1, created_at |-> 1, updated_at |-> 1,
       deleted_at |-> NULL] }

WithHash(dto, h) ==
    [f \in DOMAIN dto \cup {"password_hash"} |->
        IF f = "password_hash" THEN h ELSE dto[f]]

DoubleAccounts ==
    DoubleDtos \cup
    {WithHash(d, h) : d \in DoubleDtos,
                      h \in {NoHash, BadHash, hashpw("secret1", 1)}}

\* what the stand-in's get_account_by_email is set up to do: raise, return
\* None, or return an account object
DoubleLookups ==
    {Raise(<<>>, k) : k \in {"AccountNotFoundError",
                              "AccountRepositoryError", "Exception"}}
    \cup {Ok(<<>>, None)}
    \cup {Ok(<<>>, a) : a \in DoubleAccounts}

\* login with a stand-in repository, as the service tests construct it
LoginDouble(lookup, email, password) ==
    /\ LET r == login(lookup, password, config, now)
       IN  res' = [BaseRes EXCEPT !.op = "login_double", !.err = r.err,
                       !.msg = lookup.err, !.email = email,
                       !.password = password, !.out = lookup.out,
                       !.tok = r.tok]
    /\ UNCHANGED <<accounts, now, config, tokens, deleted, calls, pool, lib, profiles>>

\* a payload re-typed without re-signing
Retype(token) == [token EXCEPT !.payload.type = "refresh"]

\* the tokens a caller can present: those it kept, those of the last
\* response, altered copies of them, and a string that is no token
Presented ==
    LET have == (tokens \cup {res.tok.access_token, res.tok.refresh_token,
                              res.token}) \ {NoToken}
    IN  have \cup {Retype(t) : t \in have} \cup {Malformed}

\* the tokens of the last response
Received ==
    {res.tok.access_token, res.tok.refresh_token, res.token} \ {NoToken}

\* the caller keeps a token of the last response in place of the one it
\* kept before
Keep(token) ==
    /\ token \notin tokens
    /\ tokens' = {token}
    /\ res' = [res EXCEPT !.op = "keep"]
    /\ UNCHANGED <<accounts, now, config, deleted, calls, pool, lib, profiles>>

RefreshTokens(token) ==
    /\ LET r == refresh_tokens(token, config, now)
       IN  res' = [BaseRes EXCEPT !.op = "refresh_tokens", !.err = r.err,
                       !.token = token, !.tok = r.tok]
    /\ UNCHANGED <<accounts, now, config, tokens, deleted, calls, pool, lib, profiles>>

CreateToken(data, expires_delta, secret) ==
    /\ res' = [BaseRes EXCEPT !.op = "create_token", !.secret = secret,
                   !.id = expires_delta,
                   !.token = create_token(data, expires_delta, secret, now)]
    /\ UNCHANGED <<accounts, now, config, tokens, deleted, calls, pool, lib, profiles>>

DecodeToken(token, secret) ==
    /\ LET r == decode_token(token, secret, now)
       IN  res' = [BaseRes EXCEPT !.op = "decode_token", !.err = r.err,
                       !.token = token, !.secret = secret,
                       !.out = r.payload]
    /\ UNCHANGED <<accounts, now, config, tokens, deleted, calls, pool, lib, profiles>>

Secrets == {config.access_token_secret, config.refresh_token_secret}

\* ---------------------------------------------------------- specifications
\* the account store with the services over it
Next ==
    \/ \E e \in Emails, f \in BOOLEAN : CreateAccount(e, f)
    \/ \E i \in Ids, f \in BOOLEAN : GetAccountById(i, f)
    \/ \E e \in Emails, f \in BOOLEAN : GetAccountByEmail(e, f)
    \/ \E l \in 0..2, o \in 0..1, f \in BOOLEAN : GetAllAccounts(l, o, f)
    \/ \E i \in Ids, d \in UpdateDtos, f \in BOOLEAN : UpdateAccount(i, d, f)
    \/ \E i \in Ids, f \in BOOLEAN : DeleteAccount(i, f)
    \/ \E e \in Emails, p \in Passwords, c \in Passwords, s \in Salts,
          f \in BOOLEAN : Register(e, p, c, s, f)
    \/ \E e \in Emails, p \in Passwords, f \in BOOLEAN : Login(e, p, f)
    \/ \E l \in DoubleLookups, p \in Passwords :
          LoginDouble(l, IF IsNone(l.out) THEN "a@x.com" ELSE l.out.email, p)

Spec == Init /\ [][Next]_vars

\* the token machinery of AuthService
NextAuth ==
    \/ Tick
    \/ \E l \in DoubleLookups, p \in Passwords :
          LoginDouble(l, IF IsNone(l.out) THEN "a@x.com" ELSE l.out.email, p)
    \/ \E t \in Presented : RefreshTokens(t)
    \/ \E d \in DoubleDtos, ty \in {"access", "refresh"},
          ttl \in {0, config.access_token_expires}, s \in Secrets :
          CreateToken([AccessPayload(d) EXCEPT !.type = ty], ttl, s)
    \/ \E t \in Presented, s \in Secrets : DecodeToken(t, s)
    \/ \E t \in Received : Keep(t)

SpecAuth == InitAuth /\ [][NextAuth]_vars

\* the updates that show in the timestamp columns: nothing supplied, each
\* field alone, two fields together
TimedUpdates ==
    {NoUpdate,
     [NoUpdate EXCEPT !.email = "b@x.com"],
     [NoUpdate EXCEPT !.status = "blocked"],
     [NoUpdate EXCEPT !.email = "a@x.com", !.status = "active"],
     [NoUpdate EXCEPT !.password_hash = hashpw("secret1", 1)]}

\* the account store with the clock that NOW() reads
NextTimed ==
    \/ now < MaxStoreTime /\ Tick
    \/ \E e \in Emails :
          Len(accounts) < Cardinality(Emails) /\ CreateAccount(e, FALSE)
    \/ \E i \in TimedIds, d \in TimedUpdates, f \in BOOLEAN :
          UpdateAccount(i, d, f)
    \/ \E i \in TimedIds : DeleteAccount(i, FALSE)

SpecTimed == Init /\ [][NextTimed]_vars

\* the hashes a caller can hand to verify_password: those it was given, a
\* string that is no bcrypt hash, None
Hashes ==
    {res.hashes[i].hash : i \in 1..Len(res.hashes)} \cup {BadHash, NoHash}

\* password hashing and verification
NextPassword ==
    \/ \E p \in AllPasswords, s \in Salts : HashPassword(p, s)
    \/ \E p \in AllPasswords, h \in Hashes : VerifyPassword(p, h)

SpecPassword == InitPassword /\ [][NextPassword]_vars

\* concurrent repository calls over one connection pool
NextPool ==
    \/ \E c \in Callers, call \in PoolCalls : Start(c, call)
    \/ \E c \in Callers : Acquire(c)
    \/ \E c \in Callers : AcquireFails(c)
    \/ \E c \in Callers, f \in BOOLEAN : Execute(c, f)
    \/ \E c \in Callers : Release(c)

SpecPool == Init /\ [][NextPool]_vars

\* the calls that contend for the pool
FairCalls ==
    {[NoCall EXCEPT !.op = "create_account", !.email = "a@x.com"],
     [NoCall EXCEPT !.op = "get_account_by_id", !.id = 1],
     [NoCall EXCEPT !.op = "delete_account", !.id = 1]}

\* a pool of any maximum size up to PoolSize
InitPoolFair ==
    /\ accounts = <<>>
    /\ now = 1
    /\ config \in {[TestConfig EXCEPT !.database_max_pool_size = n] :
                       n \in 1..PoolSize}
    /\ tokens = {}
    /\ deleted = {}
    /\ res = BaseRes
    /\ calls = [c \in Callers |-> NoCall]
    /\ pool = 0
    /\ lib = "bcrypt4"
    /\ profiles = <<>>

NextPoolFair ==
    \/ \E c \in Callers, call \in FairCalls : Start(c, call)
    \/ \E c \in Callers : Acquire(c)
    \/ \E c \in Callers : AcquireFails(c)
    \/ \E c \in Callers, f \in BOOLEAN : Execute(c, f)
    \/ \E c \in Callers : Release(c)

\* the event loop runs every coroutine that can run: a statement that was
\* sent returns, a block whose statement returned is left, and the pool
\* serves its waiting callers in turn, so a caller that finds a connection
\* free again and again gets one
SpecPoolFair ==
    /\ InitPoolFair
    /\ [][NextPoolFair]_vars
    /\ \A c \in Callers :
          /\ WF_vars(\E f \in BOOLEAN : Execute(c, f))
          /\ WF_vars(Release(c))
          /\ SF_vars(Acquire(c))

\* the AccountService over the account store
NextService ==
    \/ \E e \in Emails, p \in Passwords, c \in Passwords, s \in Salts,
          f \in BOOLEAN : Register(e, p, c, s, f)
    \/ \E i \in Ids, f \in BOOLEAN : ServiceGetAccountById(i, f)
    \/ \E l \in 0..2, o \in 0..1, f \in BOOLEAN :
          ServiceGetAllAccounts(l, o, f)
    \/ \E i \in Ids, d \in UpdateDtos, f \in BOOLEAN :
          ServiceUpdateAccount(i, d, f)
    \/ \E i \in Ids, f \in BOOLEAN : ServiceDeleteAccount(i, f)

SpecService == Init /\ [][NextService]_vars

\* what a stand-in repository returns for a stored account: its DTO with a
\* password hash set on it
StoredLookups(accts) ==
    {Ok(<<>>, WithHash(ReadAccountDto(accts[i]), hashpw("secret1", 1))) :
        i \in ActiveIds(accts)}

\* the updates of the sessions: block the account, change its email
SessionUpdates ==
    {[NoUpdate EXCEPT !.status = "blocked"],
     [NoUpdate EXCEPT !.email = "b@x.com"]}

\* sessions over stored accounts: a login, then changes to the account,
\* then a refresh with the token the caller kept
NextSession ==
    \/ \E e \in Emails :
          Len(accounts) < MaxSessionAccounts /\ CreateAccount(e, FALSE)
    \/ \E i \in 1..MaxSessionAccounts, d \in SessionUpdates :
          UpdateAccount(i, d, FALSE)
    \/ \E i \in 1..MaxSessionAccounts : DeleteAccount(i, FALSE)
    \/ \E l \in StoredLookups(accounts) : LoginDouble(l, l.out.email, "secret1")
    \/ \E t \in Presented : RefreshTokens(t)
    \/ \E t \in Received : Keep(t)

SpecSession == Init /\ [][NextSession]_vars

\* ---------------------------------------------------- ProfileRepository
\* keys, sources and values of the profile records that are written
ProfileKeys == {"first_name", "last_name"}
ProfileSources == {"user", "system"}
ProfileValues == {"John", "Jane"}

\* ProfileKVInput: one key-value pair of an upsert
ProfileKVInput == [key : ProfileKeys, value : ProfileValues,
                   source : ProfileSources]

\* the records of an UpsertProfileRecordsDto: none, one or two pairs
UpsertRecordLists ==
    {<<>>} \cup {<<r>> : r \in ProfileKVInput}
           \cup {<<r, q>> : r \in ProfileKVInput, q \in ProfileKVInput}

\* the unique constraints of the profiles table: unique (account_id, key)
ProfileUnique == {{"account_id", "key"}}

\* the columns upsert_records names in ON CONFLICT (...)
ConflictTarget == {"account_id", "key", "source"}

\* the row INSERT INTO profiles stores
NewProfile(id, account_id, rec, t) ==
    [id |-> id, account_id |-> account_id, key |-> rec.key,
     value |-> rec.value, source |-> rec.source,
     created_at |-> t, updated_at |-> t]

\* ReadProfileRecordDto(**row)
ReadProfileRecordDto(row) ==
    [id |-> row.id, account_id |-> row.account_id, key |-> row.key,
     value |-> row.value, source |-> row.source,
     created_at |-> row.created_at, updated_at |-> row.updated_at]

\* two rows agree on every column of the set
SameOn(cols, row, other) == \A col \in cols : row[col] = other[col]

\* the rows that stand in the way of inserting the row, for a constraint
Conflicting(profs, cols, row) ==
    {i \in 1..Len(profs) : SameOn(cols, profs[i], row)}

\* account_id references accounts(id): soft-deleted rows are still rows
ForeignKeyViolation(accts, account_id) == account_id \notin 1..Len(accts)

\* results of a ProfileRepository call
ProfileOk(profs, out) == [err |-> "none", out |-> out, profiles |-> profs]
ProfileRaise(profs, kind) == [err |-> kind, out |-> <<>>, profiles |-> profs]

\* the except clauses of create_record
ProfileExceptCreate(driver_error) ==
    IF driver_error = "UniqueViolation" THEN "ProfileConflictError"
    ELSE "ProfileRepositoryError"

\* the except clause of upsert_records: psycopg.errors.Error
ProfileExceptError(driver_error) == "ProfileRepositoryError"

\* ProfileRepository.create_record
Profile_create_record(profs, accts, dto, t, fault) ==
    LET row == NewProfile(Len(profs) + 1, dto.account_id, dto, t)
    IN  IF fault
        THEN ProfileRaise(profs, ProfileExceptCreate("OperationalError"))
        ELSE IF \E u \in ProfileUnique : Conflicting(profs, u, row) # {}
        THEN ProfileRaise(profs, ProfileExceptCreate("UniqueViolation"))
        ELSE IF ForeignKeyViolation(accts, dto.account_id)
        THEN ProfileRaise(profs, ProfileExceptCreate("ForeignKeyViolation"))
        ELSE ProfileOk(Append(profs, row), <<ReadProfileRecordDto(row)>>)

\* the unique constraints that ON CONFLICT (target) can be arbitrated by:
\* those over exactly the columns of the target
ArbiterIndexes(target) == {u \in ProfileUnique : u = target}

\* one INSERT ... ON CONFLICT (target) DO UPDATE SET value = EXCLUDED.value,
\* updated_at = NOW() RETURNING *
UpsertOne(profs, accts, row, target, t) ==
    LET hit == Conflicting(profs, target, row)
    IN  IF hit # {}
        THEN LET i == CHOOSE i \in hit : TRUE
                 new == [profs[i] EXCEPT !.value = row.value,
                                         !.updated_at = t]
             IN  [err |-> "none", profiles |-> [profs EXCEPT ![i] = new],
                  row |-> new]
        ELSE IF \E u \in ProfileUnique : Conflicting(profs, u, row) # {}
        THEN [err |-> "UniqueViolation", profiles |-> profs, row |-> row]
        ELSE IF ForeignKeyViolation(accts, row.account_id)
        THEN [err |-> "ForeignKeyViolation", profiles |-> profs, row |-> row]
        ELSE [err |-> "none", profiles |-> Append(profs, row), row |-> row]

\* executemany: the statement once per record, in order, in one transaction
RECURSIVE UpsertMany(_, _, _, _, _, _, _)
UpsertMany(profs, accts, account_id, records, target, t, rows) ==
    IF records = <<>>
    THEN [err |-> "none", profiles |-> profs, rows |-> rows]
    ELSE LET row == NewProfile(Len(profs) + 1, account_id, Head(records), t)
             r == UpsertOne(profs, accts, row, target, t)
         IN  IF r.err # "none"
             THEN [err |-> r.err, profiles |-> profs, rows |-> <<>>]
             ELSE UpsertMany(r.profiles, accts, account_id, Tail(records),
                             target, t,
                             Append(rows, ReadProfileRecordDto(r.row)))

\* ProfileRepository.upsert_records.  The server rejects the statement when
\* no unique constraint matches the ON CONFLICT target; an error leaves the
\* table as it was before the call.
Profile_upsert_records(profs, accts, dto, t, fault) ==
    IF dto.records = <<>>
    THEN ProfileOk(profs, <<>>)
    ELSE IF fault
    THEN ProfileRaise(profs, ProfileExceptError("OperationalError"))
    ELSE IF ArbiterIndexes(ConflictTarget) = {}
    THEN ProfileRaise(profs, ProfileExceptError("InvalidColumnReference"))
    ELSE LET r == UpsertMany(profs, accts, dto.account_id, dto.records,
                             ConflictTarget, t, <<>>)
         IN  IF r.err # "none"
             THEN ProfileRaise(profs, ProfileExceptError(r.err))
             ELSE ProfileOk(r.profiles, r.rows)

\* the account ids profile calls are made for: an account and no account
ProfileAccountIds == 1..2

CreateRecord(account_id, rec, fault) ==
    /\ LET r == Profile_create_record(profiles, accounts,
                    [account_id |-> account_id, key |-> rec.key,
                     value |-> rec.value, source |-> rec.source],
                    now, fault)
       IN  /\ profiles' = r.profiles
           /\ res' = [BaseRes EXCEPT !.op = "create_record", !.err = r.err,
                          !.fault = fault, !.id = account_id,
                          !.records = <<rec>>, !.list = r.out]
    /\ UNCHANGED <<accounts, now, config, tokens, deleted, calls, pool, lib>>

UpsertRecords(account_id, records, fault) ==
    /\ LET r == Profile_upsert_records(profiles, accounts,
                    [account_id |-> account_id, records |-> records],
                    now, fault)
       IN  /\ profiles' = r.profiles
           /\ res' = [BaseRes EXCEPT !.op = "upsert_records", !.err = r.err,
                          !.fault = fault, !.id = account_id,
                          !.records = records, !.list = r.out]
    /\ UNCHANGED <<accounts, now, config, tokens, deleted, calls, pool, lib>>

\* the profiles table next to the accounts it references
NextProfile ==
    \/ accounts = <<>> /\ CreateAccount("a@x.com", FALSE)
    \/ \E a \in ProfileAccountIds, r \in ProfileKVInput, f \in BOOLEAN :
          CreateRecord(a, r, f)
    \/ \E a \in ProfileAccountIds, rs \in UpsertRecordLists, f \in BOOLEAN :
          UpsertRecords(a, rs, f)

SpecProfile == Init /\ [][NextProfile]_vars

\* ------------------------------------------------------------------ claims
\* rows of the table that hold the email and are not soft-deleted
ActiveWithEmail(accts, email) ==
    {i \in 1..Len(accts) : accts[i].email = email /\ accts[i].deleted_at = NULL}

\* C1: registering (email, password, password) and then logging in with the
\* same email and password, with no storage fault, succeeds and returns an
\* access/refresh token pair.
C1_RegisterThenLogin ==
    [][(/\ res.op = "register" /\ res.err = "none"
        /\ res'.op = "login" /\ ~ res'.fault
        /\ res'.email = res.email /\ res'.password = res.password)
       => (/\ res'.err = "none"
           /\ res'.tok.access_token # NoToken
           /\ res'.tok.refresh_token # NoToken)]_vars

\* C2: without a storage fault, create_account with the email of an active
\* account fails with AccountAlreadyExistsError and adds no row; with an
\* email held by no active account (soft-deleted holders or none) it
\* succeeds and appends one active row with that email.
C2_CreateUniqueAmongActive ==
    [][(res'.op = "create_account" /\ ~ res'.fault)
       => IF ActiveWithEmail(accounts, res'.email) # {}
          THEN /\ res'.err = "AccountAlreadyExistsError"
               /\ accounts' = accounts
          ELSE /\ res'.err = "none"
               /\ Len(accounts') = Len(accounts) + 1
               /\ SubSeq(accounts', 1, Len(accounts)) = accounts
               /\ accounts'[Len(accounts')].email = res'.email
               /\ accounts'[Len(accounts')].deleted_at = NULL
               /\ res'.out.id = Len(accounts')
               /\ res'.out.email = res'.email
               /\ res'.out.deleted_at = NULL]_vars

\* C2 witness: a create succeeded for an email a soft-deleted account holds
C2_Witness ==
    /\ res.op = "create_account" /\ res.err = "none"
    /\ \E i \in 1..Len(accounts) :
          /\ i # res.out.id
          /\ accounts[i].email = res.email
          /\ accounts[i].deleted_at # NULL

\* C3: once delete_account(id) has succeeded, get_account_by_id(id) and a
\* further delete_account(id) never succeed, and without a storage fault
\* they fail with AccountNotFoundError; a delete of an active account
\* succeeds, a delete of an absent id fails with AccountNotFoundError.
C3_DeleteThenNotFound ==
    [][/\ (res'.op \in {"get_account_by_id", "delete_account"}
           /\ res'.id \in deleted)
          => /\ res'.err # "none"
             /\ ~ res'.fault => res'.err = "AccountNotFoundError"
             /\ accounts' = accounts
       /\ (res'.op = "delete_account" /\ ~ res'.fault)
          => IF res'.id \in 1..Len(accounts) /\ res'.id \notin deleted
             THEN res'.err = "none" /\ res'.id \in deleted'
             ELSE res'.err = "AccountNotFoundError"]_vars

\* C3 witness: a second delete of a deleted account was refused
C3_Witness ==
    /\ res.op = "delete_account"
    /\ res.id \in deleted
    /\ res.err = "AccountNotFoundError"

\* C4: no two accounts with deleted_at null share an email.
C4_ActiveEmailsUnique ==
    \A i, j \in 1..Len(accounts) :
        (/\ i # j
         /\ accounts[i].deleted_at = NULL
         /\ accounts[j].deleted_at = NULL)
        => accounts[i].email # accounts[j].email

\* C4 witness: an active account shares its email with a soft-deleted one
\* after an update that changed an email
C4_Witness ==
    /\ res.op = "update_account" /\ res.err = "none" /\ res.dto.email # ""
    /\ \E i, j \in 1..Len(accounts) :
          /\ i # j
          /\ accounts[i].email = accounts[j].email
          /\ accounts[i].deleted_at = NULL
          /\ accounts[j].deleted_at # NULL

\* C5: a soft-deleted account is never returned or modified: no step
\* changes its row; get_account_by_id, update_account and delete_account on
\* its id never succeed and fail with AccountNotFoundError when there is no
\* storage fault; get_account_by_email never returns it, and fails with
\* AccountNotFoundError when no active account holds the email; no element
\* of a get_all_accounts result is a soft-deleted account.
C5_SoftDeletedHidden ==
    [][/\ \A i \in 1..Len(accounts) :
             accounts[i].deleted_at # NULL
             => /\ Len(accounts') >= i
                /\ accounts'[i] = accounts[i]
       /\ (/\ res'.op \in {"get_account_by_id", "update_account",
                           "delete_account"}
           /\ res'.id \in 1..Len(accounts)
           /\ accounts[res'.id].deleted_at # NULL)
          => /\ res'.err # "none"
             /\ ~ res'.fault => res'.err = "AccountNotFoundError"
       /\ res'.op = "get_account_by_email"
          => /\ res'.err = "none"
                => /\ res'.out.id \in ActiveWithEmail(accounts, res'.email)
                   /\ res'.out.deleted_at = NULL
             /\ (~ res'.fault /\ ActiveWithEmail(accounts, res'.email) = {})
                => res'.err = "AccountNotFoundError"
       /\ res'.op = "get_all_accounts"
          => \A k \in 1..Len(res'.list) :
                /\ res'.list[k].deleted_at = NULL
                /\ res'.list[k].id \in 1..Len(accounts)
                /\ accounts[res'.list[k].id].deleted_at = NULL]_vars

\* C5 witness: the listing returned accounts while a soft-deleted one exists
C5_Witness ==
    /\ res.op = "get_all_accounts" /\ Len(res.list) > 0
    /\ \E i \in 1..Len(accounts) : accounts[i].deleted_at # NULL

\* C6: every failing login fails with InvalidCredentialsError and returns no
\* token, and login does fail in each case: the lookup raised (no account,
\* soft-deleted account, storage fault, any other exception), the lookup
\* returned no account, the account carries no password hash, the password
\* does not verify against the hash.
C6_LoginFailuresUniform ==
    res.op \in {"login", "login_double"}
    => /\ res.err \in {"none", "InvalidCredentialsError"}
       /\ res.err # "none" => res.tok = NoTokens
       /\ (res.op = "login"
           /\ (res.fault \/ ActiveWithEmail(accounts, res.email) = {}))
          => res.err = "InvalidCredentialsError"
       /\ (res.op = "login_double" /\ res.msg # "none")
          => res.err = "InvalidCredentialsError"
       /\ IsNone(res.out) => res.err = "InvalidCredentialsError"
       /\ (~ IsNone(res.out) /\ "password_hash" \notin DOMAIN res.out)
          => res.err = "InvalidCredentialsError"
       /\ (/\ ~ IsNone(res.out)
           /\ "password_hash" \in DOMAIN res.out
           /\ \/ res.out.password_hash = NoHash
              \/ res.out.password_hash # hashpw(res.password,
                                                res.out.password_hash.salt))
          => res.err = "InvalidCredentialsError"

\* C6 witness: a login with a wrong password against a stored hash of
\* another password was refused
C6_Witness ==
    /\ res.op = "login_double"
    /\ res.err = "InvalidCredentialsError"
    /\ ~ IsNone(res.out)
    /\ "password_hash" \in DOMAIN res.out
    /\ res.out.password_hash = hashpw("secret1", 1)
    /\ res.password = "secret2"

\* a token that carries a valid signature under the key and is not expired
ValidUnder(token, key) ==
    /\ token.segments = 3
    /\ token.sig = [key |-> key, msg |-> token.payload]
    /\ token.payload.exp >= now

\* C7: refresh_tokens given an unexpired token of type refresh signed with
\* the refresh secret returns a new access+refresh pair; given a token of
\* type access, however signed, it fails with TokenError and issues nothing.
C7_RefreshAcceptsOnlyRefresh ==
    res.op = "refresh_tokens"
    => /\ (/\ ValidUnder(res.token, config.refresh_token_secret)
           /\ res.token.payload.type = "refresh")
          => /\ res.err = "none"
             /\ ValidUnder(res.tok.access_token, config.access_token_secret)
             /\ res.tok.access_token.payload.type = "access"
             /\ ValidUnder(res.tok.refresh_token, config.refresh_token_secret)
             /\ res.tok.refresh_token.payload.type = "refresh"
       /\ res.token.payload.type = "access"
          => /\ res.err = "TokenError"
             /\ res.tok = NoTokens

\* C7 witness: an unexpired access token that the refresh secret verifies
\* was presented to refresh_tokens and refused
C7_Witness ==
    /\ res.op = "refresh_tokens"
    /\ res.token.payload.type = "access"
    /\ ValidUnder(res.token, config.refresh_token_secret)
    /\ ValidUnder(res.token, config.access_token_secret)
    /\ res.err = "TokenError"

\* C8: when the access and refresh secrets differ, _decode_token called with
\* one of them fails with TokenError on every token signed with the other,
\* whatever its claims and expiry.
C8_SecretsNamespaced ==
    (/\ res.op = "decode_token"
     /\ config.access_token_secret # config.refresh_token_secret
     /\ res.token.segments = 3
     /\ res.token.sig.key \in Secrets
     /\ res.token.sig.key # res.secret)
    => res.err = "TokenError"

\* C8 witness: an unexpired access token was decoded with the refresh secret
C8_Witness ==
    /\ res.op = "decode_token"
    /\ config.access_token_secret # config.refresh_token_secret
    /\ ValidUnder(res.token, config.access_token_secret)
    /\ res.secret = config.refresh_token_secret
    /\ res.err = "TokenError"

\* C9: _create_token embeds exp = issue time + ttl; _decode_token with the
\* issuing secret accepts the token exactly while the clock has not passed
\* exp; after that it fails with TokenError, the error kind of every other
\* decode failure (signature mismatch, malformed token).
C9_ExpiryEnforced ==
    /\ res.op = "create_token"
       => /\ res.token.payload.exp = now + res.id
          /\ res.token.sig = [key |-> res.secret, msg |-> res.token.payload]
    /\ res.op = "decode_token"
       => /\ res.err \in {"none", "TokenError"}
          /\ (/\ res.token.segments = 3
              /\ res.token.sig = [key |-> res.secret,
                                  msg |-> res.token.payload])
             => /\ res.err = "none" <=> now <= res.token.payload.exp
                /\ res.err = "none" => res.out = res.token.payload
          /\ res.err = "none" => now <= res.token.payload.exp

\* C9 witness: a token with a valid signature was refused after its exp
C9_Witness ==
    /\ res.op = "decode_token"
    /\ res.token.segments = 3
    /\ res.token.sig = [key |-> res.secret, msg |-> res.token.payload]
    /\ res.token.payload.exp < now
    /\ res.err = "TokenError"

\* C10: a successful login returns an access token of type access, signed
\* with the access secret, expiring access_token_expires after the login,
\* and a refresh token of type refresh, signed with the refresh secret,
\* expiring refresh_token_expires after the login; both carry the id, email
\* and status of the account the lookup returned; token_type is "bearer"
\* and expires_in is access_token_expires.
C10_LoginTokenPair ==
    (res.op \in {"login", "login_double"} /\ res.err = "none")
    => LET a == res.tok.access_token
           r == res.tok.refresh_token
       IN  /\ a.segments = 3 /\ r.segments = 3
           /\ a.payload.type = "access"
           /\ a.sig = [key |-> config.access_token_secret, msg |-> a.payload]
           /\ a.payload.exp = now + config.access_token_expires
           /\ r.payload.type = "refresh"
           /\ r.sig = [key |-> config.refresh_token_secret, msg |-> r.payload]
           /\ r.payload.exp = now + config.refresh_token_expires
           /\ \A t \in {a, r} :
                 /\ t.payload.sub = res.out.id
                 /\ t.payload.email = res.out.email
                 /\ t.payload.status = res.out.status
           /\ res.tok.token_type = "bearer"
           /\ res.tok.expires_in = config.access_token_expires

\* C10 witness: a login succeeded for a blocked account
C10_Witness ==
    /\ res.op = "login_double" /\ res.err = "none"
    /\ res.out.status = "blocked"
    /\ res.tok.refresh_token.payload.type = "refresh"

\* C11: refresh_tokens leaves the account store as it was; whatever the
\* store holds, an unexpired refresh token signed with the refresh secret is
\* accepted; and both tokens of the new pair carry the subject, email and
\* status of the presented token.
C11_RefreshFromClaims ==
    [][res'.op = "refresh_tokens"
       => /\ accounts' = accounts
          /\ (/\ ValidUnder(res'.token, config.refresh_token_secret)
              /\ res'.token.payload.type = "refresh")
             => res'.err = "none"
          /\ res'.err = "none"
             => \A t \in {res'.tok.access_token, res'.tok.refresh_token} :
                   /\ t.payload.sub = res'.token.payload.sub
                   /\ t.payload.email = res'.token.payload.email
                   /\ t.payload.status = res'.token.payload.status]_vars

\* C11 witness: a refresh succeeded, with the status and email of the login,
\* for an account that has since been blocked, renamed and soft-deleted
C11_Witness ==
    /\ res.op = "refresh_tokens" /\ res.err = "none"
    /\ res.token.payload.sub \in 1..Len(accounts)
    /\ accounts[res.token.payload.sub].status = "blocked"
    /\ accounts[res.token.payload.sub].deleted_at # NULL
    /\ accounts[res.token.payload.sub].email # res.token.payload.email
    /\ res.tok.access_token.payload.status = "created"
    /\ res.tok.access_token.payload.email = res.token.payload.email

\* the calls of the AccountService, by the name the model records them under
ServiceOps ==
    {"register", "service_get_account_by_id", "service_get_all_accounts",
     "service_update_account", "service_delete_account"}

\* C12: AccountService.create_account with a password different from the
\* confirmation fails with PasswordMismatchError and leaves the account
\* store unchanged; the repository is not called, so neither a storage fault
\* nor a taken email shows in the outcome.
C12_MismatchBeforeRepository ==
    [][(res'.op = "register" /\ res'.password # res'.confirm_password)
       => /\ res'.err = "PasswordMismatchError"
          /\ res'.kind = "none"
          /\ accounts' = accounts]_vars

\* C12 witness: a registration with mismatching passwords, for the email of
\* an active account and with the storage failing, ended in
\* PasswordMismatchError
C12_Witness ==
    /\ res.op = "register"
    /\ res.password # res.confirm_password
    /\ res.fault
    /\ ActiveWithEmail(accounts, res.email) # {}
    /\ res.err = "PasswordMismatchError"

\* the words of a message
Words(msg) ==
    CASE msg = "Account with this email already exists"
           -> <<"Account", "with", "this", "email", "already", "exists">>
      [] msg = "Account not found" -> <<"Account", "not", "found">>
      [] msg = "Database error while creating account"
           -> <<"Database", "error", "while", "creating", "account">>
      [] msg = "Database error while fetching account"
           -> <<"Database", "error", "while", "fetching", "account">>
      [] msg = "Database error while fetching accounts"
           -> <<"Database", "error", "while", "fetching", "accounts">>
      [] msg = "Database error while updating account"
           -> <<"Database", "error", "while", "updating", "account">>
      [] msg = "Database error while deleting account"
           -> <<"Database", "error", "while", "deleting", "account">>
      [] msg = "Passwords do not match"
           -> <<"Passwords", "do", "not", "match">>
      [] OTHER -> <<>>

\* phrase in msg, compared as Python compares strings: letter case counts
Contains(msg, phrase) ==
    \E i \in 1..Len(Words(msg)) :
        /\ i + Len(phrase) - 1 <= Len(Words(msg))
        /\ SubSeq(Words(msg), i, i + Len(phrase) - 1) = phrase

RepoKinds ==
    {"AccountAlreadyExistsError", "AccountNotFoundError",
     "AccountRepositoryError"}

\* the phrase that names a repository failure kind in a message
Phrase(kind, database_phrase) ==
    CASE kind = "AccountAlreadyExistsError" -> <<"already", "exists">>
      [] kind = "AccountNotFoundError" -> <<"not", "found">>
      [] kind = "AccountRepositoryError" -> database_phrase

\* a repository failure reaches the caller as AccountServiceError with a
\* message that contains the phrase of its kind and of no other kind
MessageIdentifies(database_phrase) ==
    (res.op \in ServiceOps /\ res.kind # "none")
    => /\ res.err = "AccountServiceError"
       /\ \A k \in RepoKinds :
             Contains(res.msg, Phrase(k, database_phrase)) <=> k = res.kind

\* C13: the AccountService turns each repository failure into an
\* AccountServiceError whose message contains "already exists" for
\* AlreadyExists, "not found" for NotFound and "database error" for
\* RepositoryError, and the phrase of no other kind.
C13_MessagesIdentifyKind == MessageIdentifies(<<"database", "error">>)

\* C13 amended: as C13, with the phrase for RepositoryError spelled as the
\* service spells it, "Database error".
C13_MessagesIdentifyKindAmended == MessageIdentifies(<<"Database", "error">>)

\* C13 witness: a unique violation on update reached the caller as
\* "Database error while updating account"
C13_Witness ==
    /\ res.op = "service_update_account"
    /\ ~ res.fault
    /\ res.kind = "AccountRepositoryError"
    /\ res.err = "AccountServiceError"
    /\ Contains(res.msg, <<"Database", "error">>)
    /\ ~ Contains(res.msg, <<"database", "error">>)

\* C14: an AccountRepository call ends normally or with one of
\* AccountAlreadyExistsError, AccountNotFoundError, AccountRepositoryError:
\* a storage fault gives AccountRepositoryError; without one, a create gives
\* AccountAlreadyExistsError exactly when an active account holds the email,
\* a get, update or delete gives AccountNotFoundError exactly when the id is
\* absent or soft-deleted, a lookup by email when no active account holds
\* it, and the only other failure, an update to the email of another active
\* account, gives AccountRepositoryError.
C14_RepositoryErrorKinds ==
    [][res'.op \in {"create_account", "get_account_by_id",
                    "get_account_by_email", "get_all_accounts",
                    "update_account", "delete_account"}
       => /\ res'.err \in RepoKinds \cup {"none"}
          /\ res'.fault => res'.err = "AccountRepositoryError"
          /\ (~ res'.fault /\ res'.op = "create_account")
             => res'.err = IF ActiveWithEmail(accounts, res'.email) # {}
                           THEN "AccountAlreadyExistsError" ELSE "none"
          /\ (~ res'.fault /\ res'.op = "get_account_by_email")
             => res'.err = IF ActiveWithEmail(accounts, res'.email) = {}
                           THEN "AccountNotFoundError" ELSE "none"
          /\ (~ res'.fault /\ res'.op = "get_all_accounts")
             => res'.err = "none"
          /\ (/\ ~ res'.fault
              /\ res'.op \in {"get_account_by_id", "update_account",
                              "delete_account"})
             => IF res'.id \notin ActiveIds(accounts)
                THEN res'.err = "AccountNotFoundError"
                ELSE IF /\ res'.op = "update_account"
                        /\ res'.dto.email # ""
                        /\ ActiveWithEmail(accounts, res'.dto.email)
                              \ {res'.id} # {}
                THEN res'.err = "AccountRepositoryError"
                ELSE res'.err = "none"]_vars

\* C14 witness: an update to the email of another active account failed
\* with AccountRepositoryError
C14_Witness ==
    /\ res.op = "update_account"
    /\ ~ res.fault
    /\ res.err = "AccountRepositoryError"
    /\ res.id \in ActiveIds(accounts)
    /\ ActiveWithEmail(accounts, res.dto.email) \ {res.id} # {}

\* C15: every AccountService call ends normally, with AccountServiceError or
\* with its subclass PasswordMismatchError; whenever the repository call
\* behind it raised, the caller sees AccountServiceError.
C15_NoRepositoryErrorEscapes ==
    res.op \in ServiceOps
    => /\ res.err \in {"none", "AccountServiceError", "PasswordMismatchError"}
       /\ res.err \notin RepoKinds
       /\ res.kind \in RepoKinds => res.err = "AccountServiceError"

\* C15 witness: a delete of a soft-deleted account through the service
\* ended in AccountServiceError over the repository's AccountNotFoundError
C15_Witness ==
    /\ res.op = "service_delete_account"
    /\ res.id \in deleted
    /\ res.kind = "AccountNotFoundError"
    /\ res.err = "AccountServiceError"

\* C16: update_account leaves every other row as it was and adds or removes
\* none.  On an active account, when it succeeds, the row keeps id,
\* confirmed_at, created_at, deleted_at and every column the DTO does not
\* supply, takes the email and status the DTO supplies, has updated_at set
\* to the current time, and is what the call returns; when it fails the
\* table is unchanged.  On an absent or soft-deleted id the table is
\* unchanged and, without a storage fault, the error is AccountNotFoundError.
C16_UpdateFrame ==
    [][res'.op = "update_account"
       => /\ Len(accounts') = Len(accounts)
          /\ \A j \in 1..Len(accounts) :
                j # res'.id => accounts'[j] = accounts[j]
          /\ res'.err # "none" => accounts' = accounts
          /\ res'.id \notin ActiveIds(accounts)
             => /\ res'.err # "none"
                /\ ~ res'.fault => res'.err = "AccountNotFoundError"
          /\ (res'.id \in ActiveIds(accounts) /\ res'.err = "none")
             => LET old == accounts[res'.id]
                    new == accounts'[res'.id]
                IN  /\ new.id = old.id
                    /\ new.confirmed_at = old.confirmed_at
                    /\ new.created_at = old.created_at
                    /\ new.deleted_at = old.deleted_at
                    /\ new.email = IF res'.dto.email = "" THEN old.email
                                   ELSE res'.dto.email
                    /\ new.status = IF res'.dto.status = "" THEN old.status
                                    ELSE res'.dto.status
                    /\ res'.dto.password_hash = NoHash
                       => new.password_hash = old.password_hash
                    /\ new.updated_at = now
                    /\ res'.out = ReadAccountDto(new)]_vars

\* C16 witness: an update that supplied only a status succeeded some time
\* after the account was created, next to another account
C16_Witness ==
    /\ res.op = "update_account" /\ res.err = "none"
    /\ res.dto.status = "blocked" /\ res.dto.email = ""
    /\ Len(accounts) = 2
    /\ accounts[res.id].status = "blocked"
    /\ accounts[res.id].updated_at > accounts[res.id].created_at
    /\ accounts[res.id].updated_at = now

\* C17: update_account with a DTO that supplies no field reports an error
\* and changes no column of any row.
C17_EmptyUpdateFailsFast ==
    [][(res'.op = "update_account" /\ res'.dto = NoUpdate)
       => /\ res'.err # "none"
          /\ accounts' = accounts]_vars

\* C18: every repository call that is inside its connection block holds
\* exactly one connection, and a call that waits for one or has ended, by
\* return or by any error, holds none: the number of connections checked out
\* is the number of calls inside the block, and zero when no call is in
\* progress.
C18_ConnectionsReleased ==
    /\ pool = Cardinality({c \in Callers : calls[c].pc \in {"conn", "exit"}})
    /\ (\A c \in Callers : calls[c].pc = "idle") => pool = 0

\* C18 witness: a call has ended in AccountNotFoundError after holding a
\* connection, and no call is in progress
C18_Witness ==
    /\ res.op = "repository_call"
    /\ res.err = "AccountNotFoundError"
    /\ \A c \in Callers : calls[c].pc = "idle"
    /\ pool = 0

\* C19: hash_password returns a hash for every password; two hashes it has
\* returned differ, also when made from the same password; and
\* verify_password(p, h) on a hash h made from a password q is true when
\* p = q and false when p # q.
C19_HashVerify ==
    /\ res.op = "hash_password" => res.err = "none"
    /\ \A i, j \in 1..Len(res.hashes) :
          i # j => res.hashes[i].hash # res.hashes[j].hash
    /\ res.op = "verify_password"
       => \A i \in 1..Len(res.hashes) :
             res.hashes[i].hash = res.hashed
             => (res.ok <=> res.password = res.hashes[i].password)

\* C20: verify_password returns a boolean and raises nothing, for every
\* password and every hash argument; it returns false for a string that is
\* no bcrypt hash, for None, and whenever the library raises.
C20_VerifyTotal ==
    res.op = "verify_password"
    => /\ res.err = "none"
       /\ res.ok \in BOOLEAN
       /\ res.hashed \in {BadHash, NoHash} => res.ok = FALSE
       /\ bcrypt_checkpw(res.password, res.hashed, lib).err # "none"
          => res.ok = FALSE

\* C20 witness: verify_password returned false where bcrypt.checkpw raised
\* on a well-formed hash (a password of more than 72 bytes, bcrypt 5)
C20_Witness ==
    /\ res.op = "verify_password"
    /\ res.hashed \notin {BadHash, NoHash}
    /\ bcrypt_checkpw(res.password, res.hashed, lib).err = "ValueError"
    /\ res.err = "none"
    /\ res.ok = FALSE

\* C21: no account operation removes a row or changes a row's id, so the
\* set of account ids only grows; a successful delete_account keeps the row
\* and every column that identifies or describes the account, and sets
\* deleted_at to the time of the call; a deleted_at that is set is never
\* cleared or changed afterwards.
C21_NeverPhysicallyRemoved ==
    [][/\ Len(accounts') >= Len(accounts)
       /\ \A j \in 1..Len(accounts) :
             /\ accounts'[j].id = accounts[j].id
             /\ accounts[j].deleted_at # NULL
                => accounts'[j].deleted_at = accounts[j].deleted_at
       /\ (res'.op = "delete_account" /\ res'.err = "none")
          => /\ Len(accounts') = Len(accounts)
             /\ res'.id \in ActiveIds(accounts)
             /\ LET old == accounts[res'.id]
                    new == accounts'[res'.id]
                IN  /\ new.email = old.email
                    /\ new.status = old.status
                    /\ new.password_hash = old.password_hash
                    /\ new.confirmed_at = old.confirmed_at
                    /\ new.created_at = old.created_at
                    /\ new.deleted_at = now]_vars

\* C21 witness: a later account was created under the email of an account
\* that was deleted earlier, and the deleted row is still in the table with
\* the deletion time it was given
C21_Witness ==
    /\ res.op = "create_account" /\ res.err = "none"
    /\ Len(accounts) = 2
    /\ accounts[1].email = accounts[2].email
    /\ accounts[1].deleted_at # NULL
    /\ accounts[1].deleted_at < accounts[2].created_at
    /\ 1 \in deleted

\* C22: after every successful update_account and every successful
\* delete_account the row's updated_at is the time of that operation.
C22_UpdatedAtRefreshed ==
    [][(res'.op \in {"update_account", "delete_account"}
        /\ res'.err = "none")
       => accounts'[res'.id].updated_at = now]_vars

\* C23: the account a repository or service operation returns never carries
\* a password hash, and is the same whatever hash the stored row holds.
ReturningOps ==
    {"create_account", "get_account_by_id", "get_account_by_email",
     "update_account", "register"}

C23_NoPasswordHashExposed ==
    /\ (res.op \in ReturningOps /\ res.err = "none")
       => /\ ~ IsNone(res.out)
          /\ "password_hash" \notin DOMAIN res.out
          /\ res.out.id \in 1..Len(accounts)
          /\ \A h \in {NoHash, hashpw("secret1", 1), hashpw("secret2", 2)} :
                res.out = ReadAccountDto(
                              [accounts[res.out.id]
                                  EXCEPT !.password_hash = h])
    /\ res.op = "get_all_accounts"
       => \A k \in 1..Len(res.list) :
             "password_hash" \notin DOMAIN res.list[k]

\* C23 witness: the lookup by email that login relies on returned the
\* stored account of that email
C23_Witness ==
    /\ res.op = "get_account_by_email" /\ res.err = "none"
    /\ res.out.email = res.email
    /\ "password_hash" \in DOMAIN accounts[res.out.id]
    /\ Len(accounts) = 2

\* C24: after a successful update_account(id, dto) whose DTO supplies a
\* password hash h, the stored password hash of account id is h.
C24_UpdateAppliesPasswordHash ==
    [][(res'.op = "update_account" /\ res'.err = "none"
        /\ res'.dto.password_hash # NoHash)
       => accounts'[res'.id].password_hash = res'.dto.password_hash]_vars

\* C28: update_account that sets an account's email to the email of a
\* different active account fails with AccountRepositoryError, never with
\* AccountAlreadyExistsError; AccountService reports it as its database
\* error; every account is left as it was.
C28_UpdateToTakenEmail ==
    [][(/\ res'.op = "service_update_account"
        /\ res'.id \in ActiveIds(accounts)
        /\ res'.dto.email # ""
        /\ \E j \in ActiveIds(accounts) :
              j # res'.id /\ accounts[j].email = res'.dto.email)
       => /\ res'.kind = "AccountRepositoryError"
          /\ ExceptError("UniqueViolation") = res'.kind
          /\ res'.err = "AccountServiceError"
          /\ res'.msg = ServiceMessage("update_account",
                                       "AccountRepositoryError")
          /\ Contains(res'.msg, <<"Database", "error">>)
          /\ ~ Contains(res'.msg, <<"already", "exists">>)
          /\ accounts' = accounts]_vars

\* C28 witness: with no storage fault, an update asked for the email of the
\* other active account together with a new status, and both rows still hold
\* their own email and status
C28_Witness ==
    /\ res.op = "service_update_account" /\ ~ res.fault
    /\ res.kind = "AccountRepositoryError"
    /\ Len(accounts) = 2 /\ ActiveIds(accounts) = {1, 2}
    /\ res.id \in {1, 2}
    /\ res.dto.email = accounts[3 - res.id].email
    /\ res.dto.status # ""
    /\ accounts[res.id].email # res.dto.email
    /\ accounts[res.id].status # res.dto.status

\* C30: refresh_tokens keeps no record of the tokens it was given: after a
\* successful login or refresh, at any later time, presenting again the
\* refresh token that was presented, or the refresh token that was returned,
\* is accepted as long as that token has not expired, and the pair it
\* returns carries a refresh token that expires a full refresh lifetime
\* after the time of the call, never earlier than the token presented.
C30_RefreshReusable ==
    [][(/\ res.err = "none" /\ res.tok # NoTokens
        /\ res'.op = "refresh_tokens"
        /\ res'.token \in {res.token, res.tok.refresh_token} \ {NoToken}
        /\ ~ Expired(res'.token.payload.exp, now))
       => /\ res'.err = "none"
          /\ res'.tok.refresh_token.payload.exp
                = now + config.refresh_token_expires
          /\ res'.tok.refresh_token.payload.exp >= res'.token.payload.exp
          /\ res'.tok.refresh_token.payload.sub = res'.token.payload.sub
          /\ tokens' = tokens]_vars

\* C30 witness: the refresh token the caller kept has expired, and a refresh
\* token of the same account obtained by refreshing was accepted after that
\* expiry and gave a token that lasts longer still
C30_Witness ==
    /\ res.op = "refresh_tokens" /\ res.err = "none"
    /\ \E k \in tokens :
          /\ k.payload.type = "refresh"
          /\ SignatureOk(k, config.refresh_token_secret)
          /\ Expired(k.payload.exp, now)
          /\ res.token # k
          /\ res.token.payload.sub = k.payload.sub
          /\ res.token.payload.exp > k.payload.exp
          /\ res.tok.refresh_token.payload.exp > res.token.payload.exp

\* the value the last record of the triple in the list carries
LastValue(records, rec) ==
    LET same == {k \in 1..Len(records) :
                    /\ records[k].key = rec.key
                    /\ records[k].source = rec.source}
        last == CHOOSE k \in same : \A j \in same : j <= k
    IN  records[last].value

\* C25: upsert_records for an existing account, with no storage fault,
\* succeeds, and afterwards every triple (account_id, key, source) it was
\* given has exactly one record, holding the last value upserted for it;
\* records of the same account and key with different sources coexist.
C25_UpsertKeyedByTriple ==
    [][(/\ res'.op = "upsert_records" /\ ~ res'.fault
        /\ res'.id \in 1..Len(accounts))
       => /\ res'.err = "none"
          /\ \A k \in 1..Len(res'.records) :
                LET rec == res'.records[k]
                    held == {i \in 1..Len(profiles') :
                                /\ profiles'[i].account_id = res'.id
                                /\ profiles'[i].key = rec.key
                                /\ profiles'[i].source = rec.source}
                IN  /\ Cardinality(held) = 1
                    /\ \A i \in held :
                          profiles'[i].value = LastValue(res'.records, rec)]_vars

\* the callers other than c whose call of the method, for the same email and
\* id, has run its statement and is still inside its connection block
RanBeside(c, op) ==
    {d \in Callers \ {c} :
        /\ calls[d].pc = "exit" /\ calls[d].op = op
        /\ calls[d].email = calls[c].email /\ calls[d].id = calls[c].id}

\* caller c runs the statement of its call of the method in this step
Runs(c, op) ==
    /\ calls[c].pc = "conn" /\ calls[c].op = op
    /\ calls'[c].pc = "exit"

\* no account of the email has been deleted
NeverDeleted(accts, email) ==
    \A i \in 1..Len(accts) :
       accts[i].email = email => accts[i].deleted_at = NULL

\* C26: of the create_account calls for one email that are in progress
\* together, the one whose statement runs first on a store with no active
\* account of that email succeeds, every one that runs after a successful
\* one (whose account has not been deleted in between) fails, with
\* AccountAlreadyExistsError unless the storage failed, and changes nothing;
\* so exactly one succeeds, and no step leaves two active accounts with one
\* email.
C26_ConcurrentCreates ==
    [][\A c \in Callers :
          Runs(c, "create_account")
          => LET e == calls[c].email
                 won == {d \in RanBeside(c, "create_account") :
                            calls[d].err = "none"}
             IN  /\ (ActiveWithEmail(accounts, e) = {} /\ ~ calls'[c].fault)
                    => calls'[c].err = "none"
                 /\ (won # {} /\ NeverDeleted(accounts, e))
                    => /\ calls'[c].err # "none"
                       /\ ~ calls'[c].fault
                          => calls'[c].err = "AccountAlreadyExistsError"
                       /\ accounts' = accounts
                 /\ calls'[c].err = "none"
                    => /\ won = {} \/ ~ NeverDeleted(accounts, e)
                       /\ Cardinality(ActiveWithEmail(accounts', e)) = 1
                 /\ \A x \in Emails :
                       Cardinality(ActiveWithEmail(accounts', x)) <= 1]_vars

\* C26 witness: two create_account calls for one email are inside their
\* connection blocks on a store that held no account; the first has
\* succeeded, the second has failed with AccountAlreadyExistsError
C26_Witness ==
    /\ \A c \in Callers : /\ calls[c].pc = "exit"
                          /\ calls[c].op = "create_account"
                          /\ calls[c].email = "a@x.com"
    /\ calls["c1"].err = "none"
    /\ calls["c2"].err = "AccountAlreadyExistsError"
    /\ Len(accounts) = 1
    /\ Cardinality(ActiveWithEmail(accounts, "a@x.com")) = 1

\* C27: of the delete_account calls for one active id that are in progress
\* together, the one whose statement runs first succeeds and every one that
\* runs after it fails, with AccountNotFoundError unless the storage failed;
\* an update_account whose statement runs while the row is active completes,
\* and one that runs after the delete fails the same way; a statement that
\* fails changes nothing, and no step changes a row whose deleted_at is set.
C27_ConcurrentDeletes ==
    [][/\ \A c \in Callers :
            Runs(c, "delete_account")
            => LET won == {d \in RanBeside(c, "delete_account") :
                              calls[d].err = "none"}
               IN  /\ (calls[c].id \in ActiveIds(accounts)
                       /\ ~ calls'[c].fault)
                      => /\ calls'[c].err = "none"
                         /\ accounts'[calls[c].id].deleted_at = now
                   /\ won # {}
                      => /\ calls'[c].err # "none"
                         /\ ~ calls'[c].fault
                            => calls'[c].err = "AccountNotFoundError"
                         /\ accounts' = accounts
                   /\ calls'[c].err = "none" => won = {}
       /\ \A c \in Callers :
            Runs(c, "update_account")
            => LET won == {d \in RanBeside(c, "delete_account") :
                              calls[d].err = "none"}
               IN  /\ (calls[c].id \in ActiveIds(accounts)
                       /\ ~ calls'[c].fault)
                      => /\ calls'[c].err = "none"
                         /\ accounts'[calls[c].id].deleted_at = NULL
                   /\ (won # {} \/ calls[c].id \in deleted)
                      => /\ calls'[c].err # "none"
                         /\ ~ calls'[c].fault
                            => calls'[c].err = "AccountNotFoundError"
                         /\ accounts' = accounts
       /\ \A j \in 1..Len(accounts) :
             accounts[j].deleted_at # NULL => accounts'[j] = accounts[j]]_vars

\* C27 witness: two delete_account calls for one id are inside their
\* connection blocks; the first has succeeded, the second has failed with
\* AccountNotFoundError
C27_Witness ==
    /\ \A c \in Callers : /\ calls[c].pc = "exit"
                          /\ calls[c].op = "delete_account"
                          /\ calls[c].id = 1
    /\ calls["c1"].err = "none"
    /\ calls["c2"].err = "AccountNotFoundError"
    /\ accounts[1].deleted_at # NULL

\* C29: with a pool of maximum size N, the connections checked out never
\* exceed N and are one for each call inside its connection block; a call
\* that holds a connection never goes back to wait for another; and under
\* fair scheduling every call that has started completes, and a pool with
\* every connection checked out gets one back.
C29_PoolNoDeadlock ==
    /\ [](/\ pool <= config.database_max_pool_size
          /\ pool = Cardinality({c \in Callers :
                                    calls[c].pc \in {"conn", "exit"}}))
    /\ [][\A c \in Callers :
             calls[c].pc \in {"conn", "exit"}
             => /\ calls'[c].pc # "wait"
                /\ pool' <= pool \/ calls'[c] = calls[c]]_vars
    /\ \A c \in Callers : (calls[c].pc # "idle") ~> (calls[c].pc = "idle")
    /\ (pool = config.database_max_pool_size)
          ~> (pool < config.database_max_pool_size)

\* C29 witness: the pool has a single connection, one caller holds it with
\* its statement sent and the other caller waits for it
C29_Witness ==
    /\ config.database_max_pool_size = 1
    /\ pool = 1
    /\ calls["c1"].pc = "conn"
    /\ calls["c2"].pc = "wait"
    /\ calls["c2"].op = "create_account"

====
